---- MODULE Spec2Model ----
(***************************************************************************)
(* WoW Auto-Walk (src/main.py): the control loop of main(), the calibrate  *)
(* loop, the hotkey and tray listeners, the pixel sampler and classifier.  *)
(* The main thread is a process whose position is pc; the two listener     *)
(* threads run their callbacks concurrently with it.                       *)
(***************************************************************************)
EXTENDS Integers, Sequences, FiniteSets, TLC

\* ------------------------------------------------------------------------
\* Bounds of the model
\* ------------------------------------------------------------------------
\* largest debounce_frames value explored (Config default is 2)
MaxFrames == 2

\* ------------------------------------------------------------------------
\* Config (src/main.py:30-50)
\* ------------------------------------------------------------------------
sample_size == 3
debounce_frames == 2
BlackCutoff == 50

DefaultThresholds ==
    [green_threshold |-> 150, red_threshold |-> 150, off_channel_max |-> 100]

\* threshold configurations explored for the classifier: the default one,
\* and altered ones in which the GREEN, RED and BLACK rules overlap
ThresholdConfigs ==
    { DefaultThresholds,
      [green_threshold |-> 50,  red_threshold |-> 50,  off_channel_max |-> 100],
      [green_threshold |-> 10,  red_threshold |-> 10,  off_channel_max |-> 49],
      [green_threshold |-> 100, red_threshold |-> 150, off_channel_max |-> 150],
      [green_threshold |-> 200, red_threshold |-> 100, off_channel_max |-> 50] }

\* channel values explored for the classifier: both sides of every cutoff
ChannelValues == {0, 5, 10, 11, 48, 49, 50, 51, 99, 100, 101, 120, 149, 150, 151, 200, 201, 255}

\* ------------------------------------------------------------------------
\* PixelState (src/main.py:56-60)
\* ------------------------------------------------------------------------
GREEN == "GREEN"
RED == "RED"
BLACK == "BLACK"
UNKNOWN == "UNKNOWN"
PixelState == {GREEN, RED, BLACK, UNKNOWN}

\* ------------------------------------------------------------------------
\* Pixel reading
\* ------------------------------------------------------------------------
\* mutant of classify_pixel: the RED rule is tried before the GREEN rule
classify_pixel_RedFirst(r, g, b, c) ==
    IF r > c.red_threshold /\ g < c.off_channel_max THEN RED
    ELSE IF g > c.green_threshold /\ r < c.off_channel_max THEN GREEN
    ELSE IF r < BlackCutoff /\ g < BlackCutoff /\ b < BlackCutoff THEN BLACK
    ELSE UNKNOWN

classify_pixel(r, g, b, c) ==
    IF g > c.green_threshold /\ r < c.off_channel_max THEN GREEN
    ELSE IF r > c.red_threshold /\ g < c.off_channel_max THEN RED
    ELSE IF r < BlackCutoff /\ g < BlackCutoff /\ b < BlackCutoff THEN BLACK
    ELSE UNKNOWN

\* a pixel as the code indexes it: px[0]=B, px[1]=G, px[2]=R (1-based here)
PxB(px) == px[1]
PxG(px) == px[2]
PxR(px) == px[3]

\* img.pixel(x, y) of a sample_size x sample_size grab, rows first
Pixel(img, x, y) == img[y * sample_size + x + 1]

RECURSIVE SumChannel(_, _, _)
SumChannel(img, ch, n) ==
    IF n = 0 THEN 0 ELSE img[n][ch] + SumChannel(img, ch, n - 1)

read_pixel_state(img, c) ==
    LET count == sample_size * sample_size
        avg_r == SumChannel(img, 3, count) \div count
        avg_g == SumChannel(img, 2, count) \div count
        avg_b == SumChannel(img, 1, count) \div count
    IN  classify_pixel(avg_r, avg_g, avg_b, c)

\* the averaged triple <<avg_r, avg_g, avg_b>> read_pixel_state classifies
average_rgb(img) ==
    LET count == sample_size * sample_size
    IN  <<SumChannel(img, 3, count) \div count,
          SumChannel(img, 2, count) \div count,
          SumChannel(img, 1, count) \div count>>

\* what the frame grabber can return: uniform squares of each colour and a
\* square whose centre pixel differs from the rest
GreenPx == <<10, 200, 10, 255>>
RedPx == <<10, 10, 200, 255>>
BlackPx == <<5, 5, 5, 255>>
GreyPx == <<120, 120, 120, 255>>
Uniform(px) == [i \in 1..(sample_size * sample_size) |-> px]
Frames ==
    { Uniform(GreenPx), Uniform(RedPx), Uniform(BlackPx), Uniform(GreyPx),
      [i \in 1..(sample_size * sample_size) |-> IF i = 5 THEN RedPx ELSE GreenPx] }

\* grabs whose centre pixel and surrounding pixels are each of one colour
SamplePixels == {GreenPx, RedPx, BlackPx, GreyPx}
SampleFrames ==
    { [i \in 1..(sample_size * sample_size) |->
          IF i = (sample_size \div 2) * sample_size + (sample_size \div 2) + 1
             THEN centre ELSE rest] :
      centre \in SamplePixels, rest \in SamplePixels }

\* ------------------------------------------------------------------------
\* State
\* ------------------------------------------------------------------------
VARIABLES
    cfg,              \* Config of this run (immutable after Init)
    enabled, running, current_state, is_moving, calibrating,
    debounce_count, pending_state,
    lock,             \* owner of AppState.lock: "free", "main", "hotkey", "tray"
    pc,               \* position of the main thread
    new_state,        \* main()'s local new_state ("none" outside a tick)
    last_print_state, \* main()'s local last_print_state
    hk_pc,            \* position of the hotkey callback thread
    tray_pc,          \* position of the tray menu thread
    device_down,      \* the virtual input device: key physically asserted
    key_event,        \* key event sent to the device by the last step
    exc,              \* exception that ended the control loop, if any
    rgb,              \* input triple of the classifier run
    raw_hist,         \* the last cfg.debounce_frames raw readings of ACTIVE ticks
    quit_iters,       \* loop iterations begun with running already false
    held_off_polls,   \* grabs made while disabled with the key held
    reads_since_enable, \* ACTIVE readings since the loop last saw enabled false (0, 1, many)
    hk_tmp,           \* hotkey thread: the value `not state.<flag>` about to be stored
    tray_tmp,         \* tray thread: the value `not state.enabled` about to be stored
    enable_toggles,   \* number of toggle-enable commands completed, modulo 2
    calibrate_toggles, \* number of toggle-calibrate commands completed, modulo 2
    loop_mode,        \* mode of the loop's last iteration: DISABLED, ACTIVE, CALIBRATING
    mode_before_cal,  \* mode the loop was in when it entered CALIBRATING ("none" once it is back)
    frame             \* input grab of the sampler run

vars == <<cfg, enabled, running, current_state, is_moving, calibrating,
          debounce_count, pending_state, lock, pc, new_state,
          last_print_state, hk_pc, tray_pc, device_down, key_event,
          exc, rgb, raw_hist, quit_iters, held_off_polls,
          reads_since_enable, hk_tmp, tray_tmp, enable_toggles,
          calibrate_toggles, loop_mode, mode_before_cal, frame>>

\* AppState.__init__ and the locals of main() before the loop
AppStateInit ==
    /\ enabled = FALSE
    /\ running = TRUE
    /\ current_state = UNKNOWN
    /\ is_moving = FALSE
    /\ calibrating = FALSE
    /\ debounce_count = 0
    /\ pending_state = UNKNOWN
    /\ lock = "free"
    /\ new_state = "none"
    /\ last_print_state = "None"
    /\ hk_pc = "idle"
    /\ tray_pc = "idle"
    /\ device_down = FALSE
    /\ key_event = "none"
    /\ exc = "none"
    /\ raw_hist = <<>>
    /\ quit_iters = 0
    /\ held_off_polls = 0
    /\ reads_since_enable = 0
    /\ hk_tmp = FALSE
    /\ tray_tmp = FALSE
    /\ enable_toggles = 0
    /\ calibrate_toggles = 0
    /\ loop_mode = "DISABLED"
    /\ mode_before_cal = "none"

Init ==
    /\ AppStateInit
    /\ \E n \in 1..MaxFrames :
          cfg = [green_threshold |-> DefaultThresholds.green_threshold,
                 red_threshold |-> DefaultThresholds.red_threshold,
                 off_channel_max |-> DefaultThresholds.off_channel_max,
                 debounce_frames |-> n]
    /\ pc = "while"
    /\ rgb = <<0, 0, 0>>
    /\ frame = <<>>


\* ------------------------------------------------------------------------
\* Helpers of the actions
\* ------------------------------------------------------------------------
Min(a, b) == IF a < b THEN a ELSE b

\* the last n elements of s
LastN(s, n) == IF Len(s) <= n THEN s ELSE SubSeq(s, Len(s) - n + 1, Len(s))

InLoop == pc \notin {"finally", "done", "classify", "classified"}

\* the process has not exited: listener threads are daemon threads
Alive == pc \notin {"done", "classify", "classified"}

\* a step of the main thread that sends no key event
Quiet ==
    /\ key_event' = "none"
    /\ UNCHANGED device_down

NoInput == UNCHANGED <<cfg, rgb, frame>>

\* ------------------------------------------------------------------------
\* Listener threads (src/main.py:159-166, 208-220)
\* ------------------------------------------------------------------------
ListenerFrame ==
    /\ UNCHANGED <<current_state, is_moving, debounce_count, pending_state, pc,
                   new_state, last_print_state, device_down, exc, raw_hist,
                   key_event, quit_iters, reads_since_enable, loop_mode,
                   mode_before_cal>>
    /\ NoInput

\* a change of the enable flag restarts the count of grabs made while disabled
EnableEdge == held_off_polls' = 0

\* hotkey toggle(): with state.lock; load `not state.enabled`
HkToggleAcquire ==
    /\ Alive
    /\ hk_pc = "idle"
    /\ lock = "free"
    /\ lock' = "hotkey"
    /\ hk_pc' = "toggle"
    /\ hk_tmp' = ~enabled
    /\ UNCHANGED <<enabled, running, calibrating, tray_pc, held_off_polls,
                   tray_tmp, enable_toggles, calibrate_toggles>>
    /\ ListenerFrame

\* hotkey toggle(): store state.enabled, release, print
HkToggle ==
    /\ hk_pc = "toggle"
    /\ enabled' = hk_tmp
    /\ enable_toggles' = 1 - enable_toggles
    /\ EnableEdge
    /\ lock' = "free"
    /\ hk_pc' = "idle"
    /\ hk_tmp' = FALSE
    /\ UNCHANGED <<running, calibrating, tray_pc, tray_tmp, calibrate_toggles>>
    /\ ListenerFrame

\* hotkey toggle_calibrate(): with state.lock; load `not state.calibrating`
HkCalibrateAcquire ==
    /\ Alive
    /\ hk_pc = "idle"
    /\ lock = "free"
    /\ lock' = "hotkey"
    /\ hk_pc' = "calibrate"
    /\ hk_tmp' = ~calibrating
    /\ UNCHANGED <<enabled, running, calibrating, tray_pc, held_off_polls,
                   tray_tmp, enable_toggles, calibrate_toggles>>
    /\ ListenerFrame

\* hotkey toggle_calibrate(): store state.calibrating, release
HkCalibrate ==
    /\ hk_pc = "calibrate"
    /\ calibrating' = hk_tmp
    /\ calibrate_toggles' = 1 - calibrate_toggles
    /\ lock' = "free"
    /\ hk_pc' = "idle"
    /\ hk_tmp' = FALSE
    /\ UNCHANGED <<enabled, running, tray_pc, held_off_polls, tray_tmp,
                   enable_toggles>>
    /\ ListenerFrame

\* hotkey quit_app(): state.running = False, no lock taken
HkQuit ==
    /\ Alive
    /\ hk_pc = "idle"
    /\ running' = FALSE
    /\ UNCHANGED <<enabled, calibrating, lock, hk_pc, tray_pc, held_off_polls,
                   hk_tmp, tray_tmp, enable_toggles, calibrate_toggles>>
    /\ ListenerFrame

\* mutant of TrayToggleAcquire: the load is made without taking the lock
TrayToggleAcquire_NoLock ==
    /\ Alive
    /\ tray_pc = "idle"
    /\ tray_pc' = "toggle"
    /\ tray_tmp' = ~enabled
    /\ UNCHANGED <<enabled, running, calibrating, lock, hk_pc, held_off_polls,
                   hk_tmp, enable_toggles, calibrate_toggles>>
    /\ ListenerFrame

\* tray on_toggle(): with state.lock; load `not state.enabled`
TrayToggleAcquire ==
    /\ Alive
    /\ tray_pc = "idle"
    /\ lock = "free"
    /\ lock' = "tray"
    /\ tray_pc' = "toggle"
    /\ tray_tmp' = ~enabled
    /\ UNCHANGED <<enabled, running, calibrating, hk_pc, held_off_polls,
                   hk_tmp, enable_toggles, calibrate_toggles>>
    /\ ListenerFrame

\* tray on_toggle(): store state.enabled, release, update_icon
TrayToggle ==
    /\ tray_pc = "toggle"
    /\ enabled' = tray_tmp
    /\ enable_toggles' = 1 - enable_toggles
    /\ EnableEdge
    /\ lock' = IF lock = "tray" THEN "free" ELSE lock
    /\ tray_pc' = "idle"
    /\ tray_tmp' = FALSE
    /\ UNCHANGED <<running, calibrating, hk_pc, hk_tmp, calibrate_toggles>>
    /\ ListenerFrame

\* tray on_quit(): state.running = False; icon.stop()
TrayQuit ==
    /\ Alive
    /\ tray_pc = "idle"
    /\ running' = FALSE
    /\ tray_pc' = "stopped"
    /\ UNCHANGED <<enabled, calibrating, lock, hk_pc, held_off_polls,
                   hk_tmp, tray_tmp, enable_toggles, calibrate_toggles>>
    /\ ListenerFrame

\* ------------------------------------------------------------------------
\* Main thread: the control loop of main() (src/main.py:265-330)
\* ------------------------------------------------------------------------
\* what no step of the main thread changes
MainFlagsFrame ==
    /\ UNCHANGED <<enabled, running, calibrating, hk_pc, tray_pc, hk_tmp,
                   tray_tmp, enable_toggles, calibrate_toggles>>
    /\ NoInput

MainFrame ==
    /\ MainFlagsFrame
    /\ UNCHANGED <<loop_mode, mode_before_cal>>

\* the frame of the first statement of the DISABLED or ACTIVE branch: the
\* record of the mode before calibration is dropped once the loop is back
BranchFrame ==
    /\ MainFlagsFrame
    /\ UNCHANGED loop_mode
    /\ mode_before_cal' = "none"

\* the part of AppState only the main thread writes
TickState == <<current_state, is_moving, debounce_count, pending_state>>

History == <<raw_hist, quit_iters, held_off_polls, reads_since_enable>>

\* cap of debounce_count (the code's counter is unbounded): one past the
\* threshold
MaxCount(c) == c.debounce_frames + 1

\* a grab made while automation is disabled and the held flag is set
PollCount == IF ~enabled /\ is_moving THEN Min(held_off_polls + 1, 2) ELSE 0

\* while state.running:
While ==
    /\ pc = "while"
    /\ pc' = IF running THEN "cal_flag_lock" ELSE "finally"
    /\ Quiet
    /\ UNCHANGED <<TickState, lock, new_state, last_print_state, exc, History>>
    /\ MainFrame

\* with state.lock: (the calibration flag)
CalFlagAcquire ==
    /\ pc = "cal_flag_lock"
    /\ lock = "free"
    /\ lock' = "main"
    /\ pc' = "cal_flag_read"
    /\ Quiet
    /\ UNCHANGED <<TickState, new_state, last_print_state, exc, History>>
    /\ MainFrame

\* is_calibrating = state.calibrating; if is_calibrating: calibrate(...)
CalFlagRead ==
    /\ pc = "cal_flag_read"
    /\ lock' = "free"
    /\ pc' = IF calibrating THEN "c_lock" ELSE "en_lock"
    /\ loop_mode' = IF calibrating THEN "CALIBRATING" ELSE loop_mode
    /\ mode_before_cal' =
          IF calibrating
             THEN (IF loop_mode = "CALIBRATING" THEN mode_before_cal ELSE loop_mode)
             ELSE (IF loop_mode = "CALIBRATING" THEN mode_before_cal ELSE "none")
    /\ Quiet
    /\ UNCHANGED <<TickState, new_state, last_print_state, exc, History>>
    /\ MainFlagsFrame

\* with state.lock: (the enable flag)
EnabledAcquire ==
    /\ pc = "en_lock"
    /\ lock = "free"
    /\ lock' = "main"
    /\ pc' = "en_read"
    /\ Quiet
    /\ UNCHANGED <<TickState, new_state, last_print_state, exc, History>>
    /\ MainFrame

\* mutant of EnabledRead: the tick body runs inside the with-block
EnabledRead_LockHeld ==
    /\ pc = "en_read"
    /\ UNCHANGED lock
    /\ pc' = IF enabled THEN "read_pixel" ELSE "disabled"
    /\ loop_mode' = IF enabled THEN "ACTIVE" ELSE "DISABLED"
    /\ reads_since_enable' = IF enabled THEN reads_since_enable ELSE 0
    /\ Quiet
    /\ UNCHANGED <<TickState, new_state, last_print_state, exc, raw_hist,
                   quit_iters, held_off_polls, mode_before_cal>>
    /\ MainFlagsFrame

\* mutant of EnabledRead: the test of is_enabled is inverted
EnabledRead_Inverted ==
    /\ pc = "en_read"
    /\ lock' = "free"
    /\ pc' = IF enabled THEN "disabled" ELSE "read_pixel"
    /\ loop_mode' = IF enabled THEN "DISABLED" ELSE "ACTIVE"
    /\ reads_since_enable' = IF enabled THEN 0 ELSE reads_since_enable
    /\ Quiet
    /\ UNCHANGED <<TickState, new_state, last_print_state, exc, raw_hist,
                   quit_iters, held_off_polls, mode_before_cal>>
    /\ MainFlagsFrame

\* is_enabled = state.enabled; if not is_enabled: ...
EnabledRead ==
    /\ pc = "en_read"
    /\ lock' = "free"
    /\ pc' = IF enabled THEN "read_pixel" ELSE "disabled"
    /\ loop_mode' = IF enabled THEN "ACTIVE" ELSE "DISABLED"
    /\ reads_since_enable' = IF enabled THEN reads_since_enable ELSE 0
    /\ Quiet
    /\ UNCHANGED <<TickState, new_state, last_print_state, exc, raw_hist,
                   quit_iters, held_off_polls, mode_before_cal>>
    /\ MainFlagsFrame

\* mutant of Disabled: the key-up is sent whether or not the key is held
Disabled_AlwaysKeyUp ==
    /\ pc = "disabled"
    /\ key_event' = "up"
    /\ device_down' = FALSE
    /\ pc' = "dis_clear"
    /\ UNCHANGED <<TickState, lock, new_state, last_print_state, exc, History>>
    /\ BranchFrame

\* if state.is_moving: pydirectinput.keyUp(cfg.move_key)   else: sleep, continue
Disabled ==
    /\ pc = "disabled"
    /\ IF is_moving
          THEN /\ key_event' = "up"
               /\ device_down' = FALSE
               /\ pc' = "dis_clear"
          ELSE /\ key_event' = "none"
               /\ UNCHANGED device_down
               /\ pc' = "while"
    /\ UNCHANGED <<TickState, lock, new_state, last_print_state, exc, History>>
    /\ BranchFrame

\* state.is_moving = False; print; time.sleep(0.05); continue
DisabledClear ==
    /\ pc = "dis_clear"
    /\ is_moving' = FALSE
    /\ pc' = "while"
    /\ Quiet
    /\ UNCHANGED <<current_state, debounce_count, pending_state, lock,
                   new_state, last_print_state, exc, History>>
    /\ MainFrame

\* new_state = read_pixel_state(sct, cfg); sct.grab may raise
ReadPixel ==
    /\ pc = "read_pixel"
    /\ \/ /\ \E img \in Frames :
                /\ new_state' = read_pixel_state(img, cfg)
                /\ new_state' = pending_state => debounce_count < MaxCount(cfg)
          /\ pc' = "debounce"
          /\ held_off_polls' = PollCount
          /\ reads_since_enable' = Min(reads_since_enable + 1, 2)
          /\ UNCHANGED exc
       \/ /\ exc' = "CaptureError"
          /\ pc' = "finally"
          /\ UNCHANGED <<new_state, held_off_polls, reads_since_enable>>
    /\ key_event' = "none"
    /\ UNCHANGED device_down
    /\ UNCHANGED <<TickState, lock, last_print_state, raw_hist, quit_iters>>
    /\ BranchFrame

\* mutant of Confirms: the threshold must be exceeded, not reached
Confirms_Strict(count, raw, confirmed, frames) ==
    count > frames /\ raw # confirmed

\* if state.debounce_count >= cfg.debounce_frames and new_state != state.current_state
Confirms(count, raw, confirmed, frames) ==
    count >= frames /\ raw # confirmed

\* mutant of NextCount: a differing reading restarts the count at 0
NextCount_FromZero(raw, pending, count) == IF raw = pending THEN count + 1 ELSE 0

\* if new_state == state.pending_state: count += 1  else: pending = new, count = 1
NextCount(raw, pending, count) == IF raw = pending THEN count + 1 ELSE 1

\* the debounce block of the tick and the confirmation of new_state
Debounce ==
    /\ pc = "debounce"
    /\ debounce_count' = NextCount(new_state, pending_state, debounce_count)
    /\ pending_state' = new_state
    /\ raw_hist' = LastN(Append(raw_hist, new_state), cfg.debounce_frames)
    /\ IF Confirms(debounce_count', new_state, current_state, cfg.debounce_frames)
          THEN /\ current_state' = new_state
               /\ pc' = "act"
               /\ UNCHANGED new_state
          ELSE /\ pc' = "while"
               /\ new_state' = "none"
               /\ UNCHANGED current_state
    /\ Quiet
    /\ UNCHANGED <<is_moving, lock, last_print_state, exc, quit_iters,
                   held_off_polls, reads_since_enable>>
    /\ MainFrame

\* mutant of KeyAction: the held flag is not consulted
KeyAction_NoHeldCheck(confirmed, moving) ==
    IF confirmed = GREEN THEN "down" ELSE "up"

\* if new_state == GREEN and not is_moving: keyDown
\* elif new_state in (RED, BLACK, UNKNOWN) and is_moving: keyUp
KeyAction(confirmed, moving) ==
    IF confirmed = GREEN /\ ~moving THEN "down"
    ELSE IF confirmed \in {RED, BLACK, UNKNOWN} /\ moving THEN "up"
    ELSE "none"

\* Act on state change: the call to the virtual input device
Act ==
    /\ pc = "act"
    /\ key_event' = KeyAction(new_state, is_moving)
    /\ device_down' = IF key_event' = "down" THEN TRUE
                      ELSE IF key_event' = "up" THEN FALSE
                      ELSE device_down
    /\ pc' = IF key_event' = "down" THEN "set_moving"
             ELSE IF key_event' = "up" THEN "clear_moving"
             ELSE "notify"
    /\ UNCHANGED <<TickState, lock, new_state, last_print_state, exc, History>>
    /\ MainFrame

\* state.is_moving = True
SetMoving ==
    /\ pc = "set_moving"
    /\ is_moving' = TRUE
    /\ pc' = "notify"
    /\ Quiet
    /\ UNCHANGED <<current_state, debounce_count, pending_state, lock,
                   new_state, last_print_state, exc, History>>
    /\ MainFrame

\* state.is_moving = False
ClearMoving ==
    /\ pc = "clear_moving"
    /\ is_moving' = FALSE
    /\ pc' = "notify"
    /\ Quiet
    /\ UNCHANGED <<current_state, debounce_count, pending_state, lock,
                   new_state, last_print_state, exc, History>>
    /\ MainFrame

\* mutant of Notify: a failing update_icon is not caught
Notify_Propagates ==
    /\ pc = "notify"
    /\ last_print_state' = new_state
    /\ new_state' = "none"
    /\ \E ok \in BOOLEAN :
          /\ exc' = IF ok THEN exc ELSE "ObserverError"
          /\ pc' = IF ok THEN "while" ELSE "finally"
    /\ Quiet
    /\ UNCHANGED <<TickState, lock, History>>
    /\ MainFrame

\* console output; try: update_icon(tray, state); then time.sleep(poll_rate)
Notify ==
    /\ pc = "notify"
    /\ last_print_state' = new_state
    /\ new_state' = "none"
    /\ \E ok \in BOOLEAN : pc' = IF ok THEN "while" ELSE "icon_except"
    /\ Quiet
    /\ UNCHANGED <<TickState, lock, exc, History>>
    /\ MainFrame

\* except Exception: pass; then time.sleep(poll_rate)
IconExcept ==
    /\ pc = "icon_except"
    /\ pc' = "while"
    /\ Quiet
    /\ UNCHANGED <<TickState, lock, new_state, last_print_state, exc, History>>
    /\ MainFrame

\* ------------------------------------------------------------------------
\* calibrate() (src/main.py:121-146)
\* ------------------------------------------------------------------------
\* the triple calibrate() prints: the centre pixel of the grab
calibrate_sample(img) ==
    LET px == Pixel(img, sample_size \div 2, sample_size \div 2)
    IN  <<PxR(px), PxG(px), PxB(px)>>

calibrate_state(img, c) ==
    LET s == calibrate_sample(img) IN classify_pixel(s[1], s[2], s[3], c)

\* with app_state.lock:
CalibrateAcquire ==
    /\ pc = "c_lock"
    /\ lock = "free"
    /\ lock' = "main"
    /\ pc' = "c_check"
    /\ Quiet
    /\ UNCHANGED <<TickState, new_state, last_print_state, exc, History>>
    /\ MainFrame

\* if not app_state.calibrating: break
CalibrateCheck ==
    /\ pc = "c_check"
    /\ lock' = "free"
    /\ pc' = IF calibrating THEN "c_grab" ELSE "while"
    /\ quit_iters' = IF calibrating /\ ~running
                        THEN Min(quit_iters + 1, 2) ELSE quit_iters
    /\ Quiet
    /\ UNCHANGED <<TickState, new_state, last_print_state, exc, raw_hist,
                   held_off_polls, reads_since_enable>>
    /\ MainFrame

\* mutant of CalibrateGrab: the classification shown is stored as the
\* confirmed state
CalibrateGrab_Tracks ==
    /\ pc = "c_grab"
    /\ \E img \in Frames : current_state' = calibrate_state(img, cfg)
    /\ pc' = "c_lock"
    /\ held_off_polls' = PollCount
    /\ Quiet
    /\ UNCHANGED <<is_moving, debounce_count, pending_state, lock, new_state,
                   last_print_state, exc, raw_hist, quit_iters,
                   reads_since_enable>>
    /\ MainFrame

\* img = sct.grab(region); classify the centre pixel; print; time.sleep(0.1)
CalibrateGrab ==
    /\ pc = "c_grab"
    /\ \/ /\ \E img \in Frames : calibrate_state(img, cfg) \in PixelState
          /\ pc' = "c_lock"
                /\ held_off_polls' = PollCount
          /\ UNCHANGED exc
       \/ /\ exc' = "CaptureError"
          /\ pc' = "finally"
          /\ UNCHANGED held_off_polls
    /\ key_event' = "none"
    /\ UNCHANGED device_down
    /\ UNCHANGED <<TickState, lock, new_state, last_print_state, raw_hist,
                   quit_iters, reads_since_enable>>
    /\ MainFrame

\* ------------------------------------------------------------------------
\* Leaving the loop (src/main.py:320-330)
\* ------------------------------------------------------------------------
\* Ctrl-C: KeyboardInterrupt is raised in the main thread between any two
\* statements of the try block; a with-block releases the lock on the way out
Interrupt ==
    /\ InLoop
    /\ pc' = "finally"
    /\ exc' = "KeyboardInterrupt"
    /\ lock' = IF lock = "main" THEN "free" ELSE lock
    /\ key_event' = "none"
    /\ UNCHANGED device_down
    /\ UNCHANGED <<TickState, new_state, last_print_state, History>>
    /\ MainFrame

\* finally: if state.is_moving: keyUp; print; tray.stop()
Finally ==
    /\ pc = "finally"
    /\ IF is_moving
          THEN /\ key_event' = "up"
               /\ device_down' = FALSE
          ELSE /\ key_event' = "none"
               /\ UNCHANGED device_down
    /\ pc' = "done"
    /\ UNCHANGED <<TickState, lock, new_state, last_print_state, exc, History>>
    /\ MainFrame

\* ------------------------------------------------------------------------
\* Specification of the running program
\* ------------------------------------------------------------------------
Next ==
    \/ While \/ CalFlagAcquire \/ CalFlagRead \/ EnabledAcquire \/ EnabledRead
    \/ Disabled \/ DisabledClear \/ ReadPixel \/ Debounce \/ Act \/ SetMoving
    \/ ClearMoving \/ Notify \/ IconExcept \/ CalibrateAcquire \/ CalibrateCheck
    \/ CalibrateGrab \/ Interrupt \/ Finally
    \/ HkToggleAcquire \/ HkToggle \/ HkCalibrateAcquire \/ HkCalibrate
    \/ HkQuit \/ TrayToggleAcquire \/ TrayToggle \/ TrayQuit

Spec == Init /\ [][Next]_vars


\* ------------------------------------------------------------------------
\* Specification of one call of classify_pixel
\* ------------------------------------------------------------------------
ClassifyInit ==
    /\ AppStateInit
    /\ \E t \in ThresholdConfigs :
          cfg = [green_threshold |-> t.green_threshold,
                 red_threshold |-> t.red_threshold,
                 off_channel_max |-> t.off_channel_max,
                 debounce_frames |-> debounce_frames]
    /\ rgb \in ChannelValues \X ChannelValues \X ChannelValues
    /\ frame = <<>>
    /\ pc = "classify"

ClassifyCall ==
    /\ pc = "classify"
    /\ new_state' = classify_pixel(rgb[1], rgb[2], rgb[3], cfg)
    /\ pc' = "classified"
    /\ UNCHANGED <<cfg, enabled, running, current_state, is_moving,
                   calibrating, debounce_count, pending_state, lock,
                   last_print_state, hk_pc, tray_pc, device_down, key_event,
                   exc, rgb, raw_hist, quit_iters, held_off_polls,
                   reads_since_enable, hk_tmp, tray_tmp, enable_toggles,
                   calibrate_toggles, loop_mode, mode_before_cal, frame>>

ClassifyNext == ClassifyCall

ClassifySpec == ClassifyInit /\ [][ClassifyNext]_vars

\* ------------------------------------------------------------------------
\* Specification of one calibration reading of one grab
\* ------------------------------------------------------------------------
SampleInit ==
    /\ AppStateInit
    /\ \E t \in ThresholdConfigs :
          cfg = [green_threshold |-> t.green_threshold,
                 red_threshold |-> t.red_threshold,
                 off_channel_max |-> t.off_channel_max,
                 debounce_frames |-> debounce_frames]
    /\ rgb = <<0, 0, 0>>
    /\ frame \in SampleFrames
    /\ pc = "sample"

\* px = img.pixel(N // 2, N // 2); r, g, b = px[2], px[1], px[0];
\* pixel_state = classify_pixel(r, g, b, cfg); print
CalibrateSample ==
    /\ pc = "sample"
    /\ rgb' = calibrate_sample(frame)
    /\ new_state' = calibrate_state(frame, cfg)
    /\ pc' = "sampled"
    /\ UNCHANGED <<cfg, enabled, running, current_state, is_moving,
                   calibrating, debounce_count, pending_state, lock,
                   last_print_state, hk_pc, tray_pc, device_down, key_event,
                   exc, raw_hist, quit_iters, held_off_polls,
                   reads_since_enable, hk_tmp, tray_tmp, enable_toggles,
                   calibrate_toggles, loop_mode, mode_before_cal, frame>>

SampleNext == CalibrateSample

SampleSpec == SampleInit /\ [][SampleNext]_vars

\* ------------------------------------------------------------------------
\* Properties
\* ------------------------------------------------------------------------
\* the step sends a key event to the virtual input device
KeySent == key_event = "none" /\ key_event' # "none"

\* the step is the debounce block of an ACTIVE tick
DebounceStep == pc = "debounce" /\ pc' \in {"act", "while"}

\* the step is the actuation of a confirmed state
ActStep == pc = "act" /\ pc' \in {"set_moving", "clear_moving", "notify"}

\* C1: once the enable flag is false while the key is held, the loop releases
\* the key on its next iteration, in whatever mode, before any further
\* polling: at most the grab of the tick already under way is made while
\* automation is disabled and the key is held.
ForceReleaseOnDisable == held_off_polls <= 1

\* C2: after enabled or running went true -> false, the next key event is a
\* key-up of a held key and never a key-down: every key event sent while
\* enabled or running is false is a key-up, sent while the key is down.
OffEventsAreReleases ==
    [][(KeySent /\ (~enabled \/ ~running))
          => (key_event' = "up" /\ device_down)]_vars

\* C3: after quit set running = false the loop exits after at most its
\* current iteration in every mode: no second loop iteration is begun with
\* running already false.
QuitStopsEveryMode == quit_iters <= 1

\* C4: whenever the control loop has returned to its caller, by whatever
\* exit path, the virtual key is not physically held.
KeyReleasedAtExit == pc = "done" => ~device_down

\* C5: a reading of an ACTIVE tick emits a confirmed transition if and only
\* if the last debounce_frames raw readings are identical and differ from the
\* previously confirmed state; the transition is to the state read.
DebounceConfirmation ==
    [][DebounceStep =>
          LET W == cfg.debounce_frames
              h == raw_hist'
              same == Len(h) = W /\ \A i \in 1..W : h[i] = new_state
              emitted == current_state' # current_state
          IN  /\ h # <<>> /\ h[Len(h)] = new_state
              /\ emitted <=> (same /\ new_state # current_state)
              /\ emitted => current_state' = new_state]_vars

\* C5 witness: debounce_frames = 2 and GREEN has just been confirmed by two
\* GREEN readings in a row
DebounceConfirmed ==
    /\ pc = "act"
    /\ cfg.debounce_frames = 2
    /\ raw_hist = <<GREEN, GREEN>>
    /\ new_state = GREEN
    /\ current_state = GREEN

\* C6: after a disable and re-enable the debounce accumulator starts afresh:
\* the first reading taken after the loop saw automation disabled confirms a
\* transition only when debounce_frames is 1.
FreshStartOnReenable ==
    [][(DebounceStep /\ current_state' # current_state /\ reads_since_enable = 1)
          => cfg.debounce_frames = 1]_vars

\* C7: applying a confirmed state whose key position already matches the held
\* flag sends no key event and leaves the device and the held flag as they
\* are: GREEN while held sends no key-down; RED, BLACK or UNKNOWN while not
\* held sends no key-up.
ActuationIdempotent ==
    [][(ActStep /\ ((new_state = GREEN) <=> is_moving))
          => (key_event' = "none" /\ UNCHANGED <<device_down, is_moving>>)]_vars

\* C7 witness: the first state ever confirmed is RED, applied with the key not
\* held: no key event was sent
IdleApplyOfRed ==
    /\ pc = "notify"
    /\ new_state = RED
    /\ last_print_state = "None"
    /\ ~is_moving /\ ~device_down
    /\ key_event = "none"

\* C8: classify_pixel returns exactly one of the four states, chosen by the
\* first matching rule in the order GREEN, RED, BLACK, UNKNOWN, and the four
\* samples of the scenario classify as stated under the default thresholds.
ClassifierRuleOrder ==
    pc = "classified" =>
        LET r == rgb[1]
            g == rgb[2]
            b == rgb[3]
            isGreen == g > cfg.green_threshold /\ r < cfg.off_channel_max
            isRed == r > cfg.red_threshold /\ g < cfg.off_channel_max
            isBlack == r < 50 /\ g < 50 /\ b < 50
            default == /\ cfg.green_threshold = 150
                       /\ cfg.red_threshold = 150
                       /\ cfg.off_channel_max = 100
        IN  /\ new_state \in PixelState
            /\ (new_state = GREEN) <=> isGreen
            /\ (new_state = RED) <=> (~isGreen /\ isRed)
            /\ (new_state = BLACK) <=> (~isGreen /\ ~isRed /\ isBlack)
            /\ (new_state = UNKNOWN) <=> (~isGreen /\ ~isRed /\ ~isBlack)
            /\ (default /\ rgb = <<10, 200, 10>>) => new_state = GREEN
            /\ (default /\ rgb = <<200, 10, 10>>) => new_state = RED
            /\ (default /\ rgb = <<5, 5, 5>>) => new_state = BLACK
            /\ (default /\ rgb = <<120, 120, 120>>) => new_state = UNKNOWN

\* C8 witness: a sample that satisfies both the GREEN and the RED rule under
\* altered thresholds has been classified GREEN
OverlapClassifiedGreen ==
    /\ pc = "classified"
    /\ rgb[2] > cfg.green_threshold /\ rgb[1] < cfg.off_channel_max
    /\ rgb[1] > cfg.red_threshold /\ rgb[2] < cfg.off_channel_max
    /\ new_state = GREEN

\* C9: a failed frame-grab of an ACTIVE tick does not end the control loop:
\* the tick performs no actuation, leaves the confirmed state and the held
\* flag alone, and the loop goes on to its next iteration.
CaptureFailureIsTransient ==
    [][(pc = "read_pixel" /\ exc = "none" /\ exc' = "CaptureError")
          => /\ pc' \notin {"finally", "done"}
             /\ key_event' = "none"
             /\ UNCHANGED <<current_state, is_moving>>]_vars

\* C10: a failure of update_icon while notifying a confirmed transition is
\* swallowed: it never ends the control loop, and the handler leaves the
\* confirmed state and the held flag as the tick set them and goes on to the
\* next iteration.
ObserverFailureSwallowed ==
    /\ [](exc # "ObserverError")
    /\ [][pc = "notify" => pc' \in {"notify", "while", "icon_except", "finally"}]_vars
    /\ [][pc = "icon_except" =>
             /\ pc' \in {"icon_except", "while", "finally"}
             /\ pc' = "finally" => exc' = "KeyboardInterrupt"
             /\ UNCHANGED <<current_state, is_moving, device_down>>]_vars

\* C10 witness: update_icon failed on the tick that confirmed GREEN and
\* pressed the key
IconFailedAfterKeyDown ==
    /\ pc = "icon_except"
    /\ current_state = GREEN
    /\ is_moving /\ device_down
    /\ exc = "none"


\* the thread that makes a step changing a flag of AppState
Writer ==
    IF hk_pc' # hk_pc \/ (running' # running /\ tray_pc' = tray_pc)
       THEN "hotkey" ELSE "tray"

\* the step is a statement of the main thread that reads enabled,
\* calibrating, running or is_moving
MainReadStep ==
    \/ pc = "while" /\ pc' = "cal_flag_lock"
    \/ pc = "cal_flag_read" /\ pc' \in {"c_lock", "en_lock"}
    \/ pc = "en_read" /\ pc' \in {"read_pixel", "disabled"}
    \/ pc = "disabled" /\ pc' \in {"dis_clear", "while"}
    \/ ActStep
    \/ pc = "c_check" /\ pc' \in {"c_grab", "while"}
    \/ pc = "finally" /\ pc' = "done"

\* C11: every command changes its flag while its thread holds the session
\* lock, and the control loop reads enabled, calibrating, running and the
\* held flag only while it holds the lock.
LockDiscipline ==
    [][((enabled' # enabled \/ calibrating' # calibrating \/ running' # running)
            => lock = Writer)
       /\ (MainReadStep => lock = "main")]_vars

\* the positions of the main thread at which a frame-grab or a key call is
\* the next statement
IoPcs == {"read_pixel", "c_grab", "act", "disabled", "finally"}

\* C12: the control loop never holds the session lock while a frame-grab or
\* a key-down/key-up call is in progress, in any mode.
NoLockAcrossIo == pc \in IoPcs => lock # "main"

\* C12 witness: a listener holds the lock while the capture of an ACTIVE tick
\* is in progress
ListenerLocksDuringCapture ==
    /\ pc = "read_pixel"
    /\ lock = "hotkey"
    /\ hk_pc = "toggle"

\* the positions of the main thread inside calibrate()
CalPcs == {"c_lock", "c_check", "c_grab"}

\* C13: while the loop is in CALIBRATING mode no key event is sent and the
\* debounce accumulator, the confirmed state and the held flag are left
\* unchanged.
CalibrationIsPassive ==
    [][(pc \in CalPcs) =>
          (/\ ~KeySent
           /\ UNCHANGED <<debounce_count, pending_state, current_state,
                          is_moving, device_down, raw_hist>>)]_vars

\* C13 witness: two calibration grabs were made with automation disabled and
\* the key still held, after readings had been accumulated
CalibratedWhileHeld ==
    /\ pc = "c_lock"
    /\ held_off_polls = 2
    /\ is_moving /\ device_down
    /\ current_state = GREEN
    /\ debounce_count >= 1

\* the step is the snapshot of the calibration flag at the top of an iteration
CalSnapshotStep == pc = "cal_flag_read" /\ pc' \in {"c_lock", "en_lock"}

\* the step is the first snapshot of the enable flag after calibrate() returned
ReturnStep ==
    /\ pc = "en_read" /\ pc' \in {"read_pixel", "disabled"}
    /\ loop_mode = "CALIBRATING"

\* C14 (as stated): when calibration is toggled off the loop returns to the
\* mode it was in before calibration started, for every interleaving of
\* toggle-enable and toggle-calibrate commands.
ReturnsToPreviousMode ==
    [][ReturnStep => loop_mode' = mode_before_cal]_vars

\* C14 (amended): the loop enters CALIBRATING at the iteration whose snapshot
\* finds the calibration flag set, stays there until an iteration of
\* calibrate() finds it cleared, and then returns to ACTIVE or DISABLED
\* according to the enable flag as it stands at the loop's next snapshot:
\* the mode before calibration exactly when the enable flag has the value it
\* had at that mode's snapshot.
CalibrationTransitions ==
    /\ [](pc \in CalPcs => loop_mode = "CALIBRATING")
    /\ [][CalSnapshotStep =>
             ((pc' = "c_lock") <=> calibrating)]_vars
    /\ [][(pc = "c_check" /\ pc' \in {"c_grab", "while"}) =>
             ((pc' = "while") <=> ~calibrating)]_vars
    /\ [][ReturnStep =>
             /\ loop_mode' = (IF enabled THEN "ACTIVE" ELSE "DISABLED")
             /\ (loop_mode' = mode_before_cal)
                   <=> (enabled <=> (mode_before_cal = "ACTIVE"))]_vars

\* C14 witness: calibration was started from ACTIVE, automation was disabled
\* meanwhile, and the loop came back from calibration in DISABLED
ReturnedToOtherMode ==
    /\ pc = "disabled"
    /\ loop_mode = "DISABLED"
    /\ mode_before_cal = "ACTIVE"

\* C15: on each ACTIVE reading the pending state becomes the raw state and
\* the count is 1 when the raw state differs from the pending state and one
\* more when it matches; a confirmation leaves the accumulator as it is, and
\* a reading equal to the confirmed state emits no transition.
DebounceAccumulator ==
    [][DebounceStep =>
          /\ pending_state' = new_state
          /\ debounce_count' =
                (IF new_state = pending_state THEN debounce_count + 1 ELSE 1)
          /\ (debounce_count >= 1 /\ debounce_count' = 1) =>
                new_state # pending_state
          /\ current_state' # current_state =>
                debounce_count' >= cfg.debounce_frames
          /\ new_state = current_state =>
                (pc' = "while" /\ UNCHANGED current_state)]_vars

\* C15 witness: GREEN was confirmed and read once more: the count went past
\* the threshold and the loop is back at the top with no transition
CountPastThreshold ==
    /\ pc = "while"
    /\ current_state = GREEN
    /\ pending_state = GREEN
    /\ debounce_count = cfg.debounce_frames + 1
    /\ is_moving

\* the positions of the main thread inside the DISABLED branch
DisabledPcs == {"disabled", "dis_clear"}

\* C16: an iteration that takes the DISABLED branch makes no frame-grab,
\* leaves the debounce accumulator and the confirmed state unchanged, and
\* sends at most one key event: a key-up, exactly when the key was held.
DisabledTickFrame ==
    /\ [](pc = "disabled" => (is_moving <=> device_down))
    /\ [][(pc \in DisabledPcs) =>
             /\ pc' \in DisabledPcs \cup {"while", "finally"}
             /\ UNCHANGED <<debounce_count, pending_state, current_state,
                            raw_hist, reads_since_enable>>
             /\ held_off_polls' <= held_off_polls
             /\ key_event' # "down"
             /\ (pc = "disabled" /\ pc' \in {"dis_clear", "while"}) =>
                   /\ (key_event' = "up") <=> device_down
                   /\ (pc' = "dis_clear") <=> device_down
                   /\ ~device_down'
             /\ (pc = "dis_clear" /\ pc' # pc) =>
                   (key_event' = "none" /\ UNCHANGED device_down)]_vars

\* C16 witness: the DISABLED branch has just released the held key
DisabledReleasedKey ==
    /\ pc = "dis_clear"
    /\ loop_mode = "DISABLED"
    /\ key_event = "up"
    /\ is_moving /\ ~device_down

\* C17: for every captured frame the triple streamed in CALIBRATING mode is
\* the per-channel integer-truncated average over all the pixels of the
\* frame, and the classification shown equals the one an ACTIVE tick
\* computes for the same frame.
CalibrationReadsSampler ==
    pc = "sampled" =>
        /\ rgb = average_rgb(frame)
        /\ new_state = read_pixel_state(frame, cfg)

\* C18: at the end of every ACTIVE tick, after any sequence of ticks and of
\* enable, disable and calibrate commands, the key is held if and only if
\* the confirmed state is GREEN.
HeldTracksConfirmedGreen ==
    (pc = "while" /\ loop_mode = "ACTIVE") =>
        (is_moving <=> current_state = GREEN)

\* C19: the key events sent to the virtual input device strictly alternate
\* key-down, key-up, starting with key-down, over every execution (including
\* force-release on disable and shutdown cleanup), and at every tick
\* boundary up to loop exit the held flag is true exactly when the last
\* event sent was a key-down.
KeyEventsAlternate ==
    /\ [][KeySent => ((key_event' = "down") <=> ~device_down)]_vars
    /\ [](pc = "while" => (is_moving <=> device_down))

\* C20: toggle commands issued concurrently from the hotkey listener and the
\* tray menu, interleaved with the loop's snapshots, are each applied
\* atomically: after k toggle-enable commands the enable flag is its initial
\* value (false) when k is even and its negation when k is odd, and likewise
\* for toggle-calibrate.
NoLostToggle ==
    /\ enabled <=> (enable_toggles = 1)
    /\ calibrating <=> (calibrate_toggles = 1)

\* C20 witness: an even, non-zero number of toggle-enable commands has been
\* applied (the key was pressed under automation and the flag is back at
\* false) and a further hotkey toggle holds the lock in mid-update while a
\* capture is in progress
TogglesInterleaved ==
    /\ hk_pc = "toggle" /\ lock = "hotkey" /\ hk_tmp
    /\ tray_pc = "idle"
    /\ enable_toggles = 0 /\ ~enabled
    /\ is_moving
    /\ pc = "read_pixel"

====
